---- MODULE Spec2Model ----
(***************************************************************************)
(* A model of bench.c, the Architect memory benchmark: the setup of a run, *)
(* the SIGUSR1 start gate, the fork fan-out, the tick loop of the main     *)
(* thread, the access_mem worker thread with its mutex and condition       *)
(* variable, cancellation and join, and the reduction of the result log.   *)
(***************************************************************************)
EXTENDS Integers, Sequences, FiniteSets, TLC

\* ------------------------------------------------------------------ bounds
\* opts.duration ranges over 1..MaxDuration (main rejects a duration < 1).
MaxDuration == 2
\* opts.data_size ranges over 1..MaxDataSize (main rejects a size < 1).
MaxDataSize == 1
\* opts.forks ranges over 0..MaxForks.
MaxForks == 2
\* How many spurious wake-ups of pthread_cond_wait a run may see.
MaxSpurious == 1
\* How many SIGUSR1 the environment sends during a run.
MaxSignals == 1
\* rand() returns a value in 0..MaxRand (RAND_MAX, scaled down).
MaxRand == 3
\* clock_gettime returns tv_sec in 0..MaxSec and tv_nsec in 0..MaxNsec.
MaxSec == 0
MaxNsec == 2
\* The functions of the reduction are called on sorted arrays of up to
\* MaxLen values in 0..MaxVal.
MaxLen == 4
MaxVal == 4

\* --------------------------------------------------------------- constants
\* bench.h is not among the sources: its macros are scaled stand-ins which
\* keep the relations the code relies on (MB < GB, the largest access
\* smaller than the buffer but large enough to cross its end).
MB == 2
GB == 4
MEM_OP_MAX_MB == 2
TICK_INTERVAL_MS == 1000

EXIT_SUCCESS == 0
EXIT_FAILURE == 1
NSEC_PER_SEC == 1000000000
RATE_SCALE == 1024
OFFSET_SHIFT == 12
\* unsigned long has 64 bits.  The model keeps 30 of them, the most that
\* the integers of the model checker leave room for; every value of the
\* model is far below 2^30.
ULONG_WIDTH == 30

Procs == {"parent", "child"}
Threads == {"main", "worker"}

\* The configurations main() hands to benchmark().  The options of the
\* setup (quick, ready_file, forks) are varied with the shortest duration;
\* the longer durations, and more than one fork, run in quick mode without
\* ready file.
Opts ==
  {o \in [duration : 1..MaxDuration, data_size : 1..MaxDataSize,
          forks : 0..MaxForks, quick : BOOLEAN, ready_file : BOOLEAN] :
     /\ o.duration > 1 => (o.quick /\ ~o.ready_file /\ o.forks = 0)
     /\ o.forks > 1 => (o.quick /\ ~o.ready_file)}

\* What clock_gettime(CLOCK_MONOTONIC) may return: the first nanoseconds of
\* a second.
ClockReadings ==
  [tv_sec : 0..MaxSec, tv_nsec : 0..MaxNsec]

\* CLOCK_MONOTONIC never goes backwards.
NotBefore(a, b) ==
  \/ a.tv_sec < b.tv_sec
  \/ a.tv_sec = b.tv_sec /\ a.tv_nsec <= b.tv_nsec

VARIABLES
  opts,          \* struct benchmark_opts
  pc,            \* position of the main thread of the parent and of the child
  ret,           \* benchmark()'s ret, per process
  exit_status,   \* the status a process exited with (-1: has not exited)
  PROCEED,       \* the flag handle_signal sets, per process
  handler,       \* TRUE once signal(SIGUSR1, handle_signal) has run
  sigBlocked,    \* SIGUSR1 is in the parent's signal mask
  sigPending,    \* the processes with a SIGUSR1 pending
  sigsSent,      \* SIGUSR1 sent so far
  ready_file,    \* the ready file exists
  fi,            \* the parent's loop counter in the fork and waitpid loops
  others,        \* the children after the first: [running, exited, reaped]
  childReaped,   \* the parent has reaped the first child
  DATA_SIZE, RESULTS_SIZE, RESULTS_I, SAMPLES, RESULTS, RATES,
  stats,         \* the struct stats of each channel, once reduced
  TICK_LOCK,     \* owner of the mutex: "free", "main" or "worker"
  TICK,          \* the threads blocked on the condition variable
  wpc,           \* position of the access_mem thread
  ti,            \* the tick loop's counter i
  cancel_pending,\* pthread_cancel has been called on the worker
  size, offset, diff, rate,   \* access_mem's locals
  access,        \* history: number of the access in progress (0: none yet)
  drawn,         \* history: the size drawn by the access, before adjustment
  taken,         \* history: the samples appended, as <<size, diff, rate>>
  ticks, signalled, missed, dropped, spurious, oob,  \* history counters
  call,          \* a function of the reduction called on its own: the arguments
  retval         \* and what it returned

vars ==
  <<opts, pc, ret, exit_status, PROCEED, handler, sigBlocked, sigPending,
    sigsSent, ready_file, fi, others, childReaped, DATA_SIZE, RESULTS_SIZE,
    RESULTS_I, SAMPLES, RESULTS, RATES, stats, TICK_LOCK, TICK, wpc, ti,
    cancel_pending, size, offset, diff, rate, access, drawn, taken, ticks,
    signalled,
    missed, dropped, spurious, oob, call, retval>>

setupVars == <<ret, handler, ready_file, DATA_SIZE, RESULTS_SIZE>>
sigVars == <<PROCEED, sigBlocked, sigPending, sigsSent>>
forkVars == <<fi, others, childReaped>>
logVars == <<RESULTS_I, SAMPLES, RESULTS, RATES, stats, oob, taken>>
syncVars == <<TICK_LOCK, TICK, cancel_pending>>
localVars == <<size, offset, diff, rate, drawn>>
histVars == <<access, ticks, signalled, missed, dropped, spurious>>
fnVars == <<call, retval>>

\* The process that runs the sampling engine: the parent without fan-out,
\* a child with it.  The model follows the first child; the others run the
\* same code on their own copy of the memory and are kept as counts.
Eng == IF opts.forks > 0 THEN "child" ELSE "parent"

\* One cell of a channel: the value, and the access that wrote it (history).
Cell(v, a) == [val |-> v, by |-> a]

\* calloc(sizeof(unsigned long), n): n zeroed cells.
Calloc(n) == [i \in 0..(n - 1) |-> Cell(0, 0)]

\* No function is called on its own in a run of the program.
NoCall == [fn |-> "none"]
NoValue == [none |-> TRUE]

\* The state of the process when benchmark() is entered.
Boot ==
  /\ pc = [p \in Procs |-> IF p = "parent" THEN "start" ELSE "unborn"]
  /\ ret = [p \in Procs |-> EXIT_SUCCESS]
  /\ exit_status = [p \in Procs |-> -1]
  /\ PROCEED = [p \in Procs |-> 0]
  /\ handler = FALSE
  /\ sigBlocked = FALSE
  /\ sigPending = {}
  /\ sigsSent = 0
  /\ fi = 0
  /\ others = [running |-> 0, exited |-> 0, reaped |-> 0]
  /\ childReaped = FALSE
  /\ DATA_SIZE = 0
  /\ RESULTS_SIZE = 0
  /\ RESULTS_I = 0
  /\ SAMPLES = Calloc(0)
  /\ RESULTS = Calloc(0)
  /\ RATES = Calloc(0)
  /\ stats = <<>>
  /\ TICK_LOCK = "free"
  /\ TICK = {}
  /\ wpc = "none"
  /\ ti = 0
  /\ cancel_pending = FALSE
  /\ size = 0 /\ offset = 0 /\ diff = 0 /\ rate = 0 /\ drawn = 0
  /\ taken = {}
  /\ access = 0
  /\ ticks = 0 /\ signalled = 0 /\ missed = 0 /\ dropped = 0
  /\ spurious = 0
  /\ oob = FALSE

Init ==
  /\ opts \in Opts
  /\ ready_file \in (IF opts.ready_file THEN BOOLEAN ELSE {FALSE})
  /\ Boot
  /\ call = NoCall
  /\ retval = NoValue

\* ------------------------------------------------------------------- setup

\* RESULTS_SIZE = opts.duration * 1000 / TICK_INTERVAL_MS
Capacity(duration) == (duration * 1000) \div TICK_INTERVAL_MS

\* benchmark(), up to the allocation of the result log.
Setup ==
  /\ pc["parent"] = "start"
  /\ DATA_SIZE' = opts.data_size * GB
  /\ RESULTS_SIZE' = Capacity(opts.duration)
  /\ SAMPLES' = Calloc(Capacity(opts.duration))
  /\ RESULTS' = Calloc(Capacity(opts.duration))
  /\ RATES' = Calloc(Capacity(opts.duration))
  /\ pc' = [pc EXCEPT !["parent"] = "install"]
  /\ UNCHANGED <<fnVars, opts, ret, exit_status, handler, ready_file, sigVars,
                 forkVars, RESULTS_I, stats, oob, taken, syncVars, wpc, ti,
                 localVars, histVars>>

\* signal(SIGUSR1, handle_signal), and the set holding SIGUSR1.
InstallHandler ==
  /\ pc["parent"] = "install"
  /\ handler' = TRUE
  /\ pc' = [pc EXCEPT !["parent"] = "load"]
  /\ UNCHANGED <<fnVars, opts, ret, exit_status, ready_file, DATA_SIZE, RESULTS_SIZE,
                 sigVars, forkVars, logVars, syncVars, wpc, ti, localVars,
                 histVars>>

\* load_mem() and the check of its result: 0 when /dev/urandom cannot be
\* opened or read, DATA_SIZE bytes or more otherwise.
LoadMem ==
  /\ pc["parent"] = "load"
  /\ \E loaded \in {0, DATA_SIZE} :
       IF loaded = 0
         THEN /\ ret' = [ret EXCEPT !["parent"] = EXIT_FAILURE]
              /\ pc' = [pc EXCEPT !["parent"] = "free"]
         ELSE /\ ret' = ret
              /\ pc' = [pc EXCEPT !["parent"] = "ready"]
  /\ UNCHANGED <<fnVars, opts, exit_status, handler, ready_file, DATA_SIZE,
                 RESULTS_SIZE, sigVars, forkVars, logVars, syncVars, wpc, ti,
                 localVars, histVars>>

\* The ready file: remove a stale one, create a new one.  Either step may
\* fail, and both failures go to free with ret as it is.
ReadyFile ==
  /\ pc["parent"] = "ready"
  /\ IF opts.ready_file
       THEN \E outcome \in {"remove_failed", "fopen_failed", "created"} :
              CASE outcome = "remove_failed" ->
                     /\ ready_file' = ready_file
                     /\ pc' = [pc EXCEPT !["parent"] = "free"]
                [] outcome = "fopen_failed" ->
                     /\ ready_file' = FALSE
                     /\ pc' = [pc EXCEPT !["parent"] = "free"]
                [] outcome = "created" ->
                     /\ ready_file' = TRUE
                     /\ pc' = [pc EXCEPT !["parent"] = "gate"]
       ELSE /\ ready_file' = ready_file
            /\ pc' = [pc EXCEPT !["parent"] = "gate"]
  /\ UNCHANGED <<fnVars, opts, ret, exit_status, handler, DATA_SIZE, RESULTS_SIZE,
                 sigVars, forkVars, logVars, syncVars, wpc, ti, localVars,
                 histVars>>

\* -------------------------------------------------------------- start gate

\* handle_signal: PROCEED = 1, and the handler installs itself again.
handle_signal(p) == [PROCEED EXCEPT ![p] = 1]

\* A mask that leaves SIGUSR1 deliverable between the look at PROCEED and
\* sigsuspend.
BlockMaskMissing == FALSE

\* The mask during the wait: SIGUSR1 is blocked from before the first look
\* at PROCEED, so that it is delivered inside sigsuspend only.
BlockMask == TRUE

\* A wait loop that does not wait.
GateOpenAlways == TRUE

\* The test of the wait loop.
GateOpen == PROCEED["parent"] # 0

\* if (!opts.quick) sigprocmask(SIG_BLOCK, ...)
GateEnter ==
  /\ pc["parent"] = "gate"
  /\ IF opts.quick
       THEN /\ pc' = [pc EXCEPT !["parent"] = "fork_check"]
            /\ sigBlocked' = sigBlocked
       ELSE /\ pc' = [pc EXCEPT !["parent"] = "gate_check"]
            /\ sigBlocked' = BlockMask
  /\ UNCHANGED <<fnVars, opts, exit_status, setupVars, PROCEED, sigPending, sigsSent,
                 forkVars, logVars, syncVars, wpc, ti, localVars, histVars>>

\* while (!PROCEED)
GateCheck ==
  /\ pc["parent"] = "gate_check"
  /\ pc' = [pc EXCEPT !["parent"] =
              IF GateOpen THEN "gate_unblock" ELSE "sigsuspend"]
  /\ UNCHANGED <<fnVars, opts, exit_status, setupVars, sigVars, forkVars, logVars,
                 syncVars, wpc, ti, localVars, histVars>>

\* sigsuspend(&old_set): with the old mask in place, sleep until a signal
\* has been handled; then the mask that blocks SIGUSR1 is back.
SigSuspend ==
  /\ pc["parent"] = "sigsuspend"
  /\ "parent" \in sigPending
  /\ sigPending' = sigPending \ {"parent"}
  /\ PROCEED' = handle_signal("parent")
  /\ pc' = [pc EXCEPT !["parent"] = "gate_check"]
  /\ UNCHANGED <<fnVars, opts, exit_status, setupVars, sigBlocked, sigsSent, forkVars,
                 logVars, syncVars, wpc, ti, localVars, histVars>>

\* sigprocmask(SIG_UNBLOCK, ...)
GateUnblock ==
  /\ pc["parent"] = "gate_unblock"
  /\ sigBlocked' = FALSE
  /\ pc' = [pc EXCEPT !["parent"] = "fork_check"]
  /\ UNCHANGED <<fnVars, opts, exit_status, setupVars, PROCEED, sigPending, sigsSent,
                 forkVars, logVars, syncVars, wpc, ti, localVars, histVars>>

Alive(p) == pc[p] \notin {"unborn", "exited", "killed"}

\* The environment sends SIGUSR1 to a process.
SendSignal(p) ==
  /\ Alive(p)
  /\ sigsSent < MaxSignals
  /\ sigsSent' = sigsSent + 1
  /\ sigPending' = sigPending \cup {p}
  /\ UNCHANGED <<fnVars, opts, pc, exit_status, setupVars, PROCEED, sigBlocked,
                 forkVars, logVars, syncVars, wpc, ti, localVars, histVars>>

\* A process killed by a signal takes its threads with it.
Killed(p) ==
  /\ pc' = [pc EXCEPT ![p] = "killed"]
  /\ wpc' = IF p = Eng /\ wpc # "none" THEN "killed" ELSE wpc

\* A pending SIGUSR1 is delivered to a process that does not block it.
\* Without a handler it terminates the process.  A thread of the process
\* runs the handler; when that is the main thread in nanosleep, nanosleep
\* returns -1 and the tick loop breaks.
DeliverSignal(p) ==
  /\ Alive(p)
  /\ p \in sigPending
  /\ ~(p = "parent" /\ sigBlocked)
  /\ sigPending' = sigPending \ {p}
  /\ IF ~handler
       THEN /\ Killed(p)
            /\ PROCEED' = PROCEED
       ELSE /\ PROCEED' = handle_signal(p)
            /\ wpc' = wpc
            /\ \/ pc' = pc
               \/ /\ pc[p] = "sleep"
                  /\ pc' = [pc EXCEPT ![p] = "cancel"]
  /\ UNCHANGED <<fnVars, opts, exit_status, setupVars, sigBlocked, sigsSent, forkVars,
                 logVars, syncVars, ti, localVars, histVars>>

\* ----------------------------------------------------------------- fan-out

\* if (opts.forks > 0)
ForkCheck ==
  /\ pc["parent"] = "fork_check"
  /\ pc' = [pc EXCEPT !["parent"] =
              IF opts.forks > 0 THEN "fork" ELSE "mem_access"]
  /\ fi' = 0
  /\ UNCHANGED <<fnVars, opts, exit_status, setupVars, sigVars, others, childReaped,
                 logVars, syncVars, wpc, ti, localVars, histVars>>

\* One turn of the fork loop: fork() gives the child a copy of the parent's
\* memory, and the child goes to mem_access.
Fork ==
  /\ pc["parent"] = "fork"
  /\ IF fi < opts.forks
       THEN /\ fi' = fi + 1
            /\ IF fi = 0
                 THEN /\ pc' = [pc EXCEPT !["child"] = "mem_access"]
                      /\ PROCEED' = [PROCEED EXCEPT !["child"] = PROCEED["parent"]]
                      /\ ret' = [ret EXCEPT !["child"] = ret["parent"]]
                      /\ others' = others
                 ELSE /\ others' = [others EXCEPT !.running = @ + 1]
                      /\ UNCHANGED <<pc, PROCEED, ret>>
       ELSE /\ fi' = 0
            /\ pc' = [pc EXCEPT !["parent"] = "waitpid"]
            /\ UNCHANGED <<PROCEED, ret, others>>
  /\ UNCHANGED <<fnVars, opts, exit_status, handler, ready_file, DATA_SIZE,
                 RESULTS_SIZE, sigBlocked, sigPending, sigsSent, childReaped,
                 logVars, syncVars, wpc, ti, localVars, histVars>>

\* A child after the first runs the engine on its own memory and exits.
OtherChildExits ==
  /\ others.running > 0
  /\ others' = [others EXCEPT !.running = @ - 1, !.exited = @ + 1]
  /\ UNCHANGED <<fnVars, opts, pc, exit_status, setupVars, sigVars, fi, childReaped,
                 logVars, syncVars, wpc, ti, localVars, histVars>>

\* A wait that returns while the child still runs.
ChildTerminatedAlways == TRUE

\* The first child has terminated: it has exited or has been killed.
ChildTerminated == pc["child"] \in {"exited", "killed"}

\* One turn of the wait loop: waitpid(0, NULL, 0) returns once a child that
\* has terminated can be reaped.
WaitPid ==
  /\ pc["parent"] = "waitpid"
  /\ IF fi < opts.forks
       THEN /\ fi' = fi + 1
            /\ pc' = pc
            /\ \/ /\ ChildTerminated
                  /\ ~childReaped
                  /\ childReaped' = TRUE
                  /\ others' = others
               \/ /\ others.exited > 0
                  /\ others' = [others EXCEPT !.exited = @ - 1, !.reaped = @ + 1]
                  /\ childReaped' = childReaped
       ELSE /\ pc' = [pc EXCEPT !["parent"] = "free"]
            /\ UNCHANGED <<fi, others, childReaped>>
  /\ UNCHANGED <<fnVars, opts, exit_status, setupVars, sigVars, logVars, syncVars,
                 wpc, ti, localVars, histVars>>

\* free: the ready file is removed, the memory and the mutex and condition
\* variable are released, and the process exits with ret.
Free(p) ==
  /\ pc[p] = "free"
  /\ ready_file' = IF opts.ready_file THEN FALSE ELSE ready_file
  /\ exit_status' = [exit_status EXCEPT ![p] = ret[p]]
  /\ pc' = [pc EXCEPT ![p] = "exited"]
  /\ UNCHANGED <<fnVars, opts, ret, handler, DATA_SIZE, RESULTS_SIZE, sigVars,
                 forkVars, logVars, syncVars, wpc, ti, localVars, histVars>>

\* ------------------------------------------- mutex and condition variable

\* pthread_cond_signal(&TICK): one of the threads blocked on TICK, if there
\* is one, is unblocked and goes on to take the mutex again.
Unblocked(t, label) ==
  IF t = "main" THEN <<"hs_reacquire", label[2]>> ELSE <<label[1], "reacquire">>

\* The positions <<main, worker>> after a pthread_cond_signal by thread
\* `by`, which itself moves on to `next`.
AfterSignal(by, next, woken) ==
  LET moved == IF by = "main" THEN <<next, wpc>> ELSE <<pc[Eng], next>>
  IN  IF woken = "nobody" THEN moved ELSE Unblocked(woken, moved)

CondSignal(by, next) ==
  \E woken \in (IF TICK = {} THEN {"nobody"} ELSE TICK) :
    /\ TICK' = TICK \ {woken}
    /\ pc' = [pc EXCEPT ![Eng] = AfterSignal(by, next, woken)[1]]
    /\ wpc' = AfterSignal(by, next, woken)[2]

\* pthread_cond_wait may return without any signal (POSIX allows spurious
\* wake-ups); the thread still has to take the mutex again.  The threads of
\* a process that has been killed are gone.
SpuriousWakeup(t) ==
  /\ Alive(Eng)
  /\ t \in TICK
  /\ spurious < MaxSpurious
  /\ spurious' = spurious + 1
  /\ TICK' = TICK \ {t}
  /\ pc' = [pc EXCEPT ![Eng] = Unblocked(t, <<pc[Eng], wpc>>)[1]]
  /\ wpc' = Unblocked(t, <<pc[Eng], wpc>>)[2]
  /\ UNCHANGED <<fnVars, opts, exit_status, setupVars, sigVars, forkVars, logVars,
                 TICK_LOCK, cancel_pending, ti, localVars, access, ticks,
                 signalled, missed, dropped>>

\* ------------------------------------------------- the engine: main thread

\* mem_access: pthread_create(&mem_op_tid, NULL, access_mem, ...)
MemAccess ==
  /\ pc[Eng] = "mem_access"
  /\ wpc' = "hs_lock"
  /\ pc' = [pc EXCEPT ![Eng] = "hs_lock"]
  /\ UNCHANGED <<fnVars, opts, exit_status, setupVars, sigVars, forkVars, logVars,
                 syncVars, ti, localVars, histVars>>

\* Wait for the background thread: pthread_mutex_lock(&TICK_LOCK)
HsLock ==
  /\ pc[Eng] = "hs_lock"
  /\ TICK_LOCK = "free"
  /\ TICK_LOCK' = "main"
  /\ pc' = [pc EXCEPT ![Eng] = "hs_wait"]
  /\ UNCHANGED <<fnVars, opts, exit_status, setupVars, sigVars, forkVars, logVars,
                 TICK, cancel_pending, wpc, ti, localVars, histVars>>

\* pthread_cond_wait(&TICK, &TICK_LOCK): release the mutex and block.
HsWait ==
  /\ pc[Eng] = "hs_wait"
  /\ TICK_LOCK' = "free"
  /\ TICK' = TICK \cup {"main"}
  /\ pc' = [pc EXCEPT ![Eng] = "hs_blocked"]
  /\ UNCHANGED <<fnVars, opts, exit_status, setupVars, sigVars, forkVars, logVars,
                 cancel_pending, wpc, ti, localVars, histVars>>

\* pthread_cond_wait returns with the mutex taken again.
HsReacquire ==
  /\ pc[Eng] = "hs_reacquire"
  /\ TICK_LOCK = "free"
  /\ TICK_LOCK' = "main"
  /\ pc' = [pc EXCEPT ![Eng] = "hs_unlock"]
  /\ UNCHANGED <<fnVars, opts, exit_status, setupVars, sigVars, forkVars, logVars,
                 TICK, cancel_pending, wpc, ti, localVars, histVars>>

\* pthread_mutex_unlock(&TICK_LOCK), and the tick loop starts with i = 0.
HsUnlock ==
  /\ pc[Eng] = "hs_unlock"
  /\ TICK_LOCK' = "free"
  /\ ti' = 0
  /\ pc' = [pc EXCEPT ![Eng] = "tick"]
  /\ UNCHANGED <<fnVars, opts, exit_status, setupVars, sigVars, forkVars, logVars,
                 TICK, cancel_pending, wpc, localVars, histVars>>

\* A try-lock that does not look at the owner of the mutex.
TryLockAlways == TRUE

\* pthread_mutex_trylock(&TICK_LOCK) == 0
TryLockOk == TICK_LOCK = "free"

\* The head of the tick loop and the try-lock: a tick is attempted while
\* i < RESULTS_SIZE; a failed try-lock prints the missed-tick warning.
TickTry ==
  /\ pc[Eng] = "tick"
  /\ IF ti < RESULTS_SIZE
       THEN /\ ticks' = ticks + 1
            /\ IF TryLockOk
                 THEN /\ TICK_LOCK' = "main"
                      /\ missed' = missed
                      /\ pc' = [pc EXCEPT ![Eng] = "tick_signal"]
                 ELSE /\ TICK_LOCK' = TICK_LOCK
                      /\ missed' = missed + 1
                      /\ pc' = [pc EXCEPT ![Eng] = "sleep"]
       ELSE /\ pc' = [pc EXCEPT ![Eng] = "cancel"]
            /\ UNCHANGED <<ticks, missed, TICK_LOCK>>
  /\ UNCHANGED <<fnVars, opts, exit_status, setupVars, sigVars, forkVars, logVars,
                 TICK, cancel_pending, wpc, ti, localVars, access, signalled,
                 dropped, spurious>>

\* pthread_cond_signal(&TICK) of a tick.  A signal that finds no thread
\* blocked on TICK has no effect at all.
TickSignal ==
  /\ pc[Eng] = "tick_signal"
  /\ CondSignal("main", "tick_unlock")
  /\ signalled' = signalled + 1
  /\ UNCHANGED <<fnVars, opts, exit_status, setupVars, sigVars, forkVars, logVars,
                 TICK_LOCK, cancel_pending, ti, localVars, access, ticks,
                 missed, dropped, spurious>>

\* pthread_mutex_unlock(&TICK_LOCK) of a tick.
TickUnlock ==
  /\ pc[Eng] = "tick_unlock"
  /\ TICK_LOCK' = "free"
  /\ pc' = [pc EXCEPT ![Eng] = "sleep"]
  /\ UNCHANGED <<fnVars, opts, exit_status, setupVars, sigVars, forkVars, logVars,
                 TICK, cancel_pending, wpc, ti, localVars, histVars>>

\* nanosleep(&tick_interval, NULL) returns 0 and the loop goes on with i++.
\* (A nanosleep that a signal interrupts is part of DeliverSignal.)
Sleep ==
  /\ pc[Eng] = "sleep"
  /\ ti' = ti + 1
  /\ pc' = [pc EXCEPT ![Eng] = "tick"]
  /\ UNCHANGED <<fnVars, opts, exit_status, setupVars, sigVars, forkVars, logVars,
                 syncVars, wpc, localVars, histVars>>

\* pthread_cancel(mem_op_tid)
Cancel ==
  /\ pc[Eng] = "cancel"
  /\ cancel_pending' = TRUE
  /\ pc' = [pc EXCEPT ![Eng] = "join"]
  /\ UNCHANGED <<fnVars, opts, exit_status, setupVars, sigVars, forkVars, logVars,
                 TICK_LOCK, TICK, wpc, ti, localVars, histVars>>

\* A join that does not wait for the thread to terminate.
JoinAtOnce == TRUE

\* pthread_join returns once the worker thread has terminated.
JoinReturns == wpc = "cancelled"

\* pthread_join(mem_op_tid, NULL)
Join ==
  /\ pc[Eng] = "join"
  /\ JoinReturns
  /\ pc' = [pc EXCEPT ![Eng] = "report"]
  /\ UNCHANGED <<fnVars, opts, exit_status, setupVars, sigVars, forkVars, logVars,
                 syncVars, wpc, ti, localVars, histVars>>

\* A test for an empty log that never finds one.
NoSamplesNever == FALSE

\* if (RESULTS_I == 0)
NoSamples == RESULTS_I = 0

\* "Accessed %ld segments of memory", and free at once when there are none.
Report ==
  /\ pc[Eng] = "report"
  /\ pc' = [pc EXCEPT ![Eng] = IF NoSamples THEN "free" ELSE "sort"]
  /\ UNCHANGED <<fnVars, opts, exit_status, setupVars, sigVars, forkVars, logVars,
                 syncVars, wpc, ti, localVars, histVars>>

\* --------------------------------------------------------------- reduction

\* The cells of q with cell c put before the first cell of a larger value.
RECURSIVE InsertCell(_, _)
InsertCell(c, q) ==
  IF q = <<>> THEN <<c>>
  ELSE IF c.val < Head(q).val THEN <<c>> \o q
  ELSE <<Head(q)>> \o InsertCell(c, Tail(q))

\* The first n cells of arr in ascending order of value, as a sequence.
RECURSIVE SortedPrefix(_, _)
SortedPrefix(arr, n) ==
  IF n = 0 THEN <<>> ELSE InsertCell(arr[n - 1], SortedPrefix(arr, n - 1))

\* qsort(arr, n, sizeof(unsigned long), cmpulong): the first n cells are put
\* in ascending order, the others stay.
Qsort(arr, n) ==
  [i \in DOMAIN arr |-> IF i < n THEN SortedPrefix(arr, n)[i + 1] ELSE arr[i]]

Sort ==
  /\ pc[Eng] = "sort"
  /\ SAMPLES' = Qsort(SAMPLES, RESULTS_I)
  /\ RESULTS' = Qsort(RESULTS, RESULTS_I)
  /\ RATES' = Qsort(RATES, RESULTS_I)
  /\ pc' = [pc EXCEPT ![Eng] = "stats"]
  /\ UNCHANGED <<fnVars, opts, exit_status, setupVars, sigVars, forkVars, RESULTS_I,
                 stats, oob, taken, syncVars, wpc, ti, localVars, histVars>>

\* A double.  The model keeps the values exact, as fractions in lowest
\* terms with a positive denominator; the rounding of the floating-point
\* operations is not modelled.
RECURSIVE Gcd(_, _)
Gcd(a, b) == IF b = 0 THEN a ELSE Gcd(b, a % b)

Abs(x) == IF x < 0 THEN -x ELSE x

Frac(n, d) ==
  LET g == Gcd(Abs(n), Abs(d))
      s == IF d < 0 THEN -1 ELSE 1
  IN  [num |-> (s * n) \div g, den |-> (s * d) \div g]

\* The conversion of an integer to double.
Double(x) == Frac(x, 1)

DAdd(a, b) == Frac(a.num * b.den + b.num * a.den, a.den * b.den)
DSub(a, b) == Frac(a.num * b.den - b.num * a.den, a.den * b.den)
DMul(a, b) == Frac(a.num * b.num, a.den * b.den)
DDiv(a, b) == Frac(a.num * b.den, a.den * b.num)

\* sqrt(x): the non-negative double whose square is x, kept as x.
Sqrt(x) == [squared |-> x]

\* unsigned long r = (k * (n - 1)) / 100
Rank(n, k) == (k * (n - 1)) \div 100

\* unsigned long rmod = (k * (n - 1)) % 100
Rmod(n, k) == (k * (n - 1)) % 100

\* The division of two integers, which truncates.
FractionTruncated(rmod) == Double(rmod \div 100)

\* rmod / 100.0
Fraction(rmod) == DDiv(Double(rmod), Double(100))

\* percentile returns the k-th percentile of the first n values of data
\* (n >= 1: compute_stats calls it with n >= 2 only).
percentile(data, n, k) ==
  IF Rmod(n, k) = 0
    THEN Double(data[Rank(n, k)].val)
    ELSE DAdd(Double(data[Rank(n, k)].val),
              DMul(Fraction(Rmod(n, k)),
                   Double(data[Rank(n, k) + 1].val - data[Rank(n, k)].val)))

\* The indexes of data that percentile reads.
percentile_reads(n, k) ==
  {Rank(n, k)} \cup (IF Rmod(n, k) = 0 THEN {} ELSE {Rank(n, k) + 1})

\* The loop of compute_stats from index i on: the running average and the
\* running sum `var`, each turn dividing by the loop index i.
RECURSIVE Welford(_, _, _, _, _)
Welford(data, n, i, prev_avg, var) ==
  IF i < n
    THEN LET x == Double(data[i].val)
             avg == DAdd(prev_avg, DDiv(DSub(x, prev_avg), Double(i)))
         IN  Welford(data, n, i + 1, avg,
                     DAdd(var, DMul(DSub(x, prev_avg), DSub(x, avg))))
    ELSE [avg |-> prev_avg, var |-> var]

\* The element before the last.
LastOffByOne(data, n) == data[n - 2].val

\* data[size - 1]
Last(data, n) == data[n - 1].val

\* compute_stats calculates statistics about the n values of data (size, in
\* the source), which it assumes to be sorted in ascending order.
compute_stats(data, n) ==
  CASE n = 0 ->
         [min |-> 0, max |-> 0, avg |-> Double(0), stdev |-> Sqrt(Double(0)),
          p99 |-> Double(0), p95 |-> Double(0), p90 |-> Double(0)]
    [] n = 1 ->
         [min |-> data[0].val, max |-> data[0].val,
          avg |-> Double(data[0].val), stdev |-> Sqrt(Double(0)),
          p99 |-> Double(data[0].val), p95 |-> Double(data[0].val),
          p90 |-> Double(data[0].val)]
    [] OTHER ->
         LET w == Welford(data, n, 1, Double(data[0].val), Double(0))
         IN  [min |-> data[0].val, max |-> Last(data, n),
              avg |-> w.avg,
              stdev |-> Sqrt(DDiv(w.var, Double(n - 1))),
              p99 |-> percentile(data, n, 99),
              p95 |-> percentile(data, n, 95),
              p90 |-> percentile(data, n, 90)]

\* The three calls of compute_stats and the report of their results.
Stats ==
  /\ pc[Eng] = "stats"
  /\ stats' = [samples |-> compute_stats(SAMPLES, RESULTS_I),
               results |-> compute_stats(RESULTS, RESULTS_I),
               rates |-> compute_stats(RATES, RESULTS_I)]
  /\ pc' = [pc EXCEPT ![Eng] = "free"]
  /\ UNCHANGED <<fnVars, opts, exit_status, setupVars, sigVars, forkVars, RESULTS_I,
                 SAMPLES, RESULTS, RATES, oob, taken, syncVars, wpc, ti,
                 localVars, histVars>>

\* ------------------------------------------- the engine: access_mem thread

\* Notify main thread when ready: pthread_mutex_lock(&TICK_LOCK)
WorkerHsLock ==
  /\ wpc = "hs_lock"
  /\ TICK_LOCK = "free"
  /\ TICK_LOCK' = "worker"
  /\ wpc' = "hs_signal"
  /\ UNCHANGED <<fnVars, opts, pc, exit_status, setupVars, sigVars, forkVars, logVars,
                 TICK, cancel_pending, ti, localVars, histVars>>

\* pthread_cond_signal(&TICK) of the handshake.
WorkerHsSignal ==
  /\ wpc = "hs_signal"
  /\ CondSignal("worker", "hs_unlock")
  /\ UNCHANGED <<fnVars, opts, exit_status, setupVars, sigVars, forkVars, logVars,
                 TICK_LOCK, cancel_pending, ti, localVars, histVars>>

\* pthread_mutex_unlock(&TICK_LOCK) of the handshake.
WorkerHsUnlock ==
  /\ wpc = "hs_unlock"
  /\ TICK_LOCK' = "free"
  /\ wpc' = "lock"
  /\ UNCHANGED <<fnVars, opts, pc, exit_status, setupVars, sigVars, forkVars, logVars,
                 TICK, cancel_pending, ti, localVars, histVars>>

\* while (true) pthread_mutex_lock(&TICK_LOCK)
WorkerLock ==
  /\ wpc = "lock"
  /\ TICK_LOCK = "free"
  /\ TICK_LOCK' = "worker"
  /\ wpc' = "wait"
  /\ UNCHANGED <<fnVars, opts, pc, exit_status, setupVars, sigVars, forkVars, logVars,
                 TICK, cancel_pending, ti, localVars, histVars>>

\* pthread_cond_wait(&TICK, &TICK_LOCK): release the mutex and block.
WorkerWait ==
  /\ wpc = "wait"
  /\ ~cancel_pending
  /\ TICK_LOCK' = "free"
  /\ TICK' = TICK \cup {"worker"}
  /\ wpc' = "blocked"
  /\ UNCHANGED <<fnVars, opts, pc, exit_status, setupVars, sigVars, forkVars, logVars,
                 cancel_pending, ti, localVars, histVars>>

\* pthread_cond_wait returns with the mutex taken again: an access starts.
WorkerReacquire ==
  /\ wpc = "reacquire"
  /\ TICK_LOCK = "free"
  /\ TICK_LOCK' = "worker"
  /\ access' = access + 1
  /\ wpc' = "draw"
  /\ UNCHANGED <<fnVars, opts, pc, exit_status, setupVars, sigVars, forkVars, logVars,
                 TICK, cancel_pending, ti, localVars, ticks, signalled,
                 missed, dropped, spurious>>

\* The positions at which a deferred cancellation request is acted upon:
\* the call of pthread_cond_wait, the wait itself, and printf.
CancellationPoint(label) == label \in {"wait", "blocked", "reacquire", "warn"}

\* The worker thread acts on the cancellation request and terminates.  A
\* thread cancelled inside pthread_cond_wait takes the mutex again first,
\* and access_mem installs no cleanup handler that would release it.
WorkerCancelled ==
  /\ cancel_pending
  /\ CancellationPoint(wpc)
  /\ wpc \in {"blocked", "reacquire"} => TICK_LOCK = "free"
  /\ TICK_LOCK' = IF wpc \in {"blocked", "reacquire"} THEN "worker" ELSE TICK_LOCK
  /\ TICK' = TICK \ {"worker"}
  /\ wpc' = "cancelled"
  /\ UNCHANGED <<fnVars, opts, pc, exit_status, setupVars, sigVars, forkVars, logVars,
                 cancel_pending, ti, localVars, histVars>>

\* a | b on the non-negative integers.
RECURSIVE BitOr(_, _)
BitOr(a, b) ==
  IF a = 0 THEN b
  ELSE IF b = 0 THEN a
  ELSE (IF a % 2 = 1 \/ b % 2 = 1 THEN 1 ELSE 0) + 2 * BitOr(a \div 2, b \div 2)

\* a << n
RECURSIVE ShiftLeft(_, _)
ShiftLeft(a, n) == IF n = 0 THEN a ELSE ShiftLeft(2 * a, n - 1)

\* size = rand() % (MEM_OP_MAX_MB * MB)
DrawSize(r) == r % (MEM_OP_MAX_MB * MB)

\* offset = rand(); offset = (offset << 12 | rand()) % (DATA_SIZE - 1)
DrawOffset(r1, r2) == BitOr(ShiftLeft(r1, OFFSET_SHIFT), r2) % (DATA_SIZE - 1)

\* The size as drawn, without the adjustment.
ClampNone(sz, off) == sz

\* Adjust how much data to manipulate to stay within bounds.
Clamp(sz, off) == IF off + sz > DATA_SIZE THEN DATA_SIZE - off ELSE sz

\* The three calls of rand() and the adjustment of the size.
WorkerDraw ==
  /\ wpc = "draw"
  /\ \E r0, r1, r2 \in 0..MaxRand :
       /\ offset' = DrawOffset(r1, r2)
       /\ size' = Clamp(DrawSize(r0), DrawOffset(r1, r2))
       /\ drawn' = DrawSize(r0)
  /\ wpc' = "copy"
  /\ UNCHANGED <<fnVars, opts, pc, exit_status, setupVars, sigVars, forkVars, logVars,
                 syncVars, ti, diff, rate, histVars>>

\* Time elapsed in nanoseconds between two clock readings.
Elapsed(before, after) ==
  (after.tv_sec - before.tv_sec) * NSEC_PER_SEC
    + (after.tv_nsec - before.tv_nsec)

\* malloc and memset of the scratch buffer, the timed memcpy from or to
\* DATA + offset (the bytes of DATA are not modelled, so that the direction
\* of the copy, *mem_op, changes nothing here), free, and the time it took.
WorkerCopy ==
  /\ wpc = "copy"
  /\ \E before, after \in ClockReadings :
       /\ NotBefore(before, after)
       /\ diff' = Elapsed(before, after)
  /\ wpc' = "rate"
  /\ UNCHANGED <<fnVars, opts, pc, exit_status, setupVars, sigVars, forkVars, logVars,
                 syncVars, ti, size, offset, rate, drawn, histVars>>

\* long rate = (size * 1024 / diff).  With diff = 0 the division is
\* undefined: the process is killed by SIGFPE where the division traps, and
\* the quotient is 0 where it does not.
WorkerRate ==
  /\ wpc = "rate"
  /\ IF diff # 0
       THEN /\ rate' = (size * RATE_SCALE) \div diff
            /\ wpc' = "check"
            /\ pc' = pc
       ELSE \/ /\ rate' = 0
               /\ wpc' = "check"
               /\ pc' = pc
            \/ /\ rate' = rate
               /\ wpc' = "killed"
               /\ pc' = [pc EXCEPT ![Eng] = "killed"]
  /\ UNCHANGED <<fnVars, opts, exit_status, setupVars, sigVars, forkVars, logVars,
                 syncVars, ti, size, offset, diff, drawn, histVars>>

\* The test with <= for <: one sample more than the log can hold.
HasCapacityOffByOne == RESULTS_I <= RESULTS_SIZE

\* if (RESULTS_I < RESULTS_SIZE)
HasCapacity == RESULTS_I < RESULTS_SIZE

WorkerCheck ==
  /\ wpc = "check"
  /\ wpc' = IF HasCapacity THEN "store_sample" ELSE "warn"
  /\ UNCHANGED <<fnVars, opts, pc, exit_status, setupVars, sigVars, forkVars, logVars,
                 syncVars, ti, localVars, histVars>>

\* arr[i] = v, by the access in progress.  A store past the end of the
\* array does not change the array: it lands in other memory (oob).
Store(arr, i, v) ==
  IF i \in DOMAIN arr THEN [arr EXCEPT ![i] = Cell(v, access)] ELSE arr

\* The count incremented together with the first store, before the other
\* two channels are written.
WorkerStoreSampleCountFirst ==
  /\ wpc = "store_sample"
  /\ SAMPLES' = Store(SAMPLES, RESULTS_I, size)
  /\ RESULTS_I' = RESULTS_I + 1
  /\ oob' = (oob \/ RESULTS_I \notin DOMAIN SAMPLES)
  /\ wpc' = "store_result"
  /\ UNCHANGED <<fnVars, opts, pc, exit_status, setupVars, sigVars, forkVars,
                 RESULTS, RATES, stats, taken, syncVars, ti, localVars,
                 histVars>>

\* SAMPLES[RESULTS_I] = size
WorkerStoreSample ==
  /\ wpc = "store_sample"
  /\ SAMPLES' = Store(SAMPLES, RESULTS_I, size)
  /\ oob' = (oob \/ RESULTS_I \notin DOMAIN SAMPLES)
  /\ wpc' = "store_result"
  /\ UNCHANGED <<fnVars, opts, pc, exit_status, setupVars, sigVars, forkVars,
                 RESULTS_I, RESULTS, RATES, stats, taken, syncVars, ti, localVars,
                 histVars>>

\* The conversion of a long to unsigned long: the value modulo 2^width.
ToUnsigned(x) == x % (2 ^ ULONG_WIDTH)

\* What ends up in RESULTS for two readings of the clock: RESULTS is an
\* array of unsigned long, diff a long.
StoredLatency(before, after) == ToUnsigned(Elapsed(before, after))

\* RESULTS[RESULTS_I] = diff
WorkerStoreResult ==
  /\ wpc = "store_result"
  /\ RESULTS' = Store(RESULTS, RESULTS_I, ToUnsigned(diff))
  /\ oob' = (oob \/ RESULTS_I \notin DOMAIN RESULTS)
  /\ wpc' = "store_rate"
  /\ UNCHANGED <<fnVars, opts, pc, exit_status, setupVars, sigVars, forkVars,
                 RESULTS_I, SAMPLES, RATES, stats, taken, syncVars, ti, localVars,
                 histVars>>

\* RATES[RESULTS_I] = rate
WorkerStoreRate ==
  /\ wpc = "store_rate"
  /\ RATES' = Store(RATES, RESULTS_I, rate)
  /\ oob' = (oob \/ RESULTS_I \notin DOMAIN RATES)
  /\ wpc' = "increment"
  /\ UNCHANGED <<fnVars, opts, pc, exit_status, setupVars, sigVars, forkVars,
                 RESULTS_I, SAMPLES, RESULTS, stats, taken, syncVars, ti, localVars,
                 histVars>>

\* RESULTS_I++
WorkerIncrement ==
  /\ wpc = "increment"
  /\ RESULTS_I' = RESULTS_I + 1
  /\ taken' = taken \cup {<<size, diff, rate>>}
  /\ wpc' = "unlock"
  /\ UNCHANGED <<fnVars, opts, pc, exit_status, setupVars, sigVars, forkVars, SAMPLES,
                 RESULTS, RATES, stats, oob, syncVars, ti, localVars,
                 histVars>>

\* printf("WARN: Result storage limit reached.\n"): the sample is dropped.
WorkerWarn ==
  /\ wpc = "warn"
  /\ dropped' = dropped + 1
  /\ wpc' = "unlock"
  /\ UNCHANGED <<fnVars, opts, pc, exit_status, setupVars, sigVars, forkVars, logVars,
                 syncVars, ti, localVars, access, ticks, signalled, missed,
                 spurious>>

\* pthread_mutex_unlock(&TICK_LOCK), and back to the head of the loop: the
\* locals of the loop body go out of scope.
WorkerUnlock ==
  /\ wpc = "unlock"
  /\ TICK_LOCK' = "free"
  /\ size' = 0 /\ offset' = 0 /\ diff' = 0 /\ rate' = 0 /\ drawn' = 0
  /\ wpc' = "lock"
  /\ UNCHANGED <<fnVars, opts, pc, exit_status, setupVars, sigVars, forkVars, logVars,
                 TICK, cancel_pending, ti, histVars>>

\* ------------------------------------------ the functions, on their own

\* An array of unsigned long holding the values of a sequence.
Arr(seq) == [i \in 0..(Len(seq) - 1) |-> Cell(seq[i + 1], 0)]

\* The arrays of n values in ascending order, as qsort leaves them.
SortedArrays(n) ==
  {[i \in 0..(n - 1) |-> Cell(f[i], 0)] :
     f \in {g \in [0..(n - 1) -> 0..MaxVal] :
              \A i \in 0..(n - 2) : g[i] <= g[i + 1]}}

\* Two data sets with known statistics.
Examples == {Arr(<<10, 20, 30, 40, 50>>), Arr(<<2, 4, 4, 4, 5, 5, 7, 9>>)}

Size(data) == Cardinality(DOMAIN data)

Inputs == Examples \cup UNION {SortedArrays(n) : n \in 0..MaxLen}

NoReading == [tv_sec |-> 0, tv_nsec |-> 0]

\* The calls: percentile on n >= 1 values with any k in 0..100,
\* compute_stats on n >= 0 values, and the latency of two clock readings
\* in either order.
Calls ==
  {[fn |-> "percentile", data |-> d, n |-> Size(d), k |-> k,
    before |-> NoReading, after |-> NoReading] :
     d \in {e \in Inputs : Size(e) >= 1}, k \in 0..100}
  \cup
  {[fn |-> "compute_stats", data |-> d, n |-> Size(d), k |-> 0,
    before |-> NoReading, after |-> NoReading] : d \in Inputs}
  \cup
  {[fn |-> "latency", data |-> Arr(<<>>), n |-> 0, k |-> 0,
    before |-> b, after |-> a] : b \in ClockReadings, a \in ClockReadings}

FnInit ==
  /\ opts = [duration |-> 1, data_size |-> 1, forks |-> 0, quick |-> TRUE,
             ready_file |-> FALSE]
  /\ ready_file = FALSE
  /\ Boot
  /\ call \in Calls
  /\ retval = NoValue

mainVars ==
  <<opts, pc, exit_status, setupVars, sigVars, forkVars, logVars, syncVars,
    wpc, ti, localVars, histVars>>

CallPercentile ==
  /\ call.fn = "percentile"
  /\ retval = NoValue
  /\ retval' = percentile(call.data, call.n, call.k)
  /\ UNCHANGED <<mainVars, call>>

CallComputeStats ==
  /\ call.fn = "compute_stats"
  /\ retval = NoValue
  /\ retval' = compute_stats(call.data, call.n)
  /\ UNCHANGED <<mainVars, call>>

CallLatency ==
  /\ call.fn = "latency"
  /\ retval = NoValue
  /\ retval' = [stored |-> StoredLatency(call.before, call.after)]
  /\ UNCHANGED <<mainVars, call>>

\* ----------------------------------------------------------- specification

Next ==
  \/ Setup \/ InstallHandler \/ LoadMem \/ ReadyFile
  \/ GateEnter \/ GateCheck \/ SigSuspend \/ GateUnblock
  \/ \E p \in Procs : SendSignal(p)
  \/ \E p \in Procs : DeliverSignal(p)
  \/ ForkCheck \/ Fork \/ OtherChildExits \/ WaitPid
  \/ \E p \in Procs : Free(p)
  \/ \E t \in Threads : SpuriousWakeup(t)
  \/ MemAccess \/ HsLock \/ HsWait \/ HsReacquire \/ HsUnlock
  \/ TickTry \/ TickSignal \/ TickUnlock \/ Sleep \/ Cancel \/ Join
  \/ Report \/ Sort \/ Stats
  \/ WorkerHsLock \/ WorkerHsSignal \/ WorkerHsUnlock
  \/ WorkerLock \/ WorkerWait \/ WorkerReacquire \/ WorkerCancelled
  \/ WorkerDraw \/ WorkerCopy \/ WorkerRate \/ WorkerCheck
  \/ WorkerStoreSample \/ WorkerStoreResult \/ WorkerStoreRate
  \/ WorkerIncrement \/ WorkerWarn \/ WorkerUnlock

Spec == Init /\ [][Next]_vars

\* The run up to the end of the start gate, with the fairness the gate
\* relies on: the main thread keeps running, and the kernel delivers a
\* pending signal that is not blocked.
GateNext ==
  \/ Setup \/ InstallHandler \/ LoadMem \/ ReadyFile
  \/ GateEnter \/ GateCheck \/ SigSuspend \/ GateUnblock
  \/ SendSignal("parent") \/ DeliverSignal("parent")
  \/ Free("parent")

GateSpec ==
  /\ Init
  /\ [][GateNext]_vars
  /\ WF_vars(GateEnter) /\ WF_vars(GateCheck) /\ WF_vars(SigSuspend)
  /\ WF_vars(GateUnblock) /\ WF_vars(DeliverSignal("parent"))

\* The functions of the reduction and the latency, each applied once to
\* arguments of its own.
FnNext == CallPercentile \/ CallComputeStats \/ CallLatency

FnSpec == FnInit /\ [][FnNext]_vars

\* A quick run without fan-out and without ready file, of the shortest
\* duration, under a fair scheduler: a thread that can take a step
\* eventually takes it.  Spurious wake-ups and signals may happen or not.
EngineInit ==
  /\ Init
  /\ opts.quick /\ opts.forks = 0 /\ ~opts.ready_file /\ opts.duration = 1

MainStep ==
  \/ Setup \/ InstallHandler \/ LoadMem \/ ReadyFile \/ GateEnter
  \/ ForkCheck \/ MemAccess \/ HsLock \/ HsWait \/ HsReacquire \/ HsUnlock
  \/ TickTry \/ TickSignal \/ TickUnlock \/ Sleep \/ Cancel \/ Join
  \/ Report \/ Sort \/ Stats \/ Free("parent")

WorkerStep ==
  \/ WorkerHsLock \/ WorkerHsSignal \/ WorkerHsUnlock
  \/ WorkerLock \/ WorkerWait \/ WorkerReacquire \/ WorkerCancelled
  \/ WorkerDraw \/ WorkerCopy \/ WorkerRate \/ WorkerCheck
  \/ WorkerStoreSample \/ WorkerStoreResult \/ WorkerStoreRate
  \/ WorkerIncrement \/ WorkerWarn \/ WorkerUnlock

EngineNext ==
  \/ MainStep
  \/ WorkerStep
  \/ \E t \in Threads : SpuriousWakeup(t)
  \/ SendSignal("parent") \/ DeliverSignal("parent")

EngineSpec ==
  /\ EngineInit
  /\ [][EngineNext]_vars
  /\ WF_vars(MainStep) /\ WF_vars(WorkerStep)

\* ------------------------------------------------------------------ claims

\* The positions of the worker inside an access, from the return of
\* pthread_cond_wait to the unlock that ends the loop body.
AccessLabels ==
  {"draw", "copy", "rate", "check", "store_sample", "store_result",
   "store_rate", "increment", "warn", "unlock"}

\* The positions of a main thread from the fan-out on.
PastGateLabels ==
  {"fork_check", "fork", "waitpid", "mem_access", "hs_lock", "hs_wait",
   "hs_blocked", "hs_reacquire", "hs_unlock", "tick", "tick_signal",
   "tick_unlock", "sleep", "cancel", "join", "report", "sort", "stats"}

\* pthread_join has returned in the process that runs the engine.
Joined ==
  /\ cancel_pending
  /\ pc[Eng] \in {"report", "sort", "stats", "free", "exited"}

\* qsort has put the channels in order.
Sorted == pc[Eng] = "stats" \/ stats # <<>>

Min(a, b) == IF a < b THEN a ELSE b

\* C1: the sample count stays within 0..RESULTS_SIZE and no store lands at
\* an index >= RESULTS_SIZE; an access that finds the log full goes to the
\* warning, and the warning leaves the count at capacity and the channels
\* as they are, with the worker going on (or terminating, when a
\* cancellation is pending) and the main thread where it was.
C1_CapacityRespected ==
  /\ [](0 <= RESULTS_I /\ RESULTS_I <= RESULTS_SIZE /\ ~oob)
  /\ [][(wpc = "check" /\ wpc' # wpc /\ RESULTS_I = RESULTS_SIZE)
          => (wpc' = "warn" /\ UNCHANGED <<RESULTS_I, SAMPLES, RESULTS, RATES>>)]_vars
  /\ [][(wpc = "warn" /\ wpc' # wpc)
          => /\ RESULTS_I' = RESULTS_SIZE
             /\ UNCHANGED <<SAMPLES, RESULTS, RATES, pc>>
             /\ wpc' \in {"unlock", "cancelled"}
             /\ wpc' = "unlock" => dropped' = dropped + 1]_vars

\* C1 witness: a sample has been dropped with the log full.
C1_Witness ==
  /\ dropped >= 1 /\ wpc = "unlock"
  /\ RESULTS_SIZE >= 1 /\ RESULTS_I = RESULTS_SIZE

\* C2: when the main thread is about to signal its first tick (the first
\* try-lock of the tick loop has succeeded), the worker is blocked on TICK
\* (in the runs without a spurious wake-up).
C2_FirstTickFindsWorkerWaiting ==
  (pc[Eng] = "tick_signal" /\ signalled = 0 /\ spurious = 0)
    => "worker" \in TICK

\* C3: a tick attempted while the worker holds the mutex fails its try-lock
\* and is counted as missed, without a signal and without the main thread
\* taking the mutex; the worker holds the mutex during the whole of an
\* access, so that nothing is signalled during one; the sample count is 0
\* while the first access is under way and 1 once it is appended.
C3_SlowWorkerDropsTicks ==
  /\ [][(ticks' # ticks /\ TICK_LOCK = "worker")
          => /\ missed' = missed + 1
             /\ signalled' = signalled
             /\ TICK_LOCK' = "worker"
             /\ pc'[Eng] = "sleep"
             /\ UNCHANGED <<access, RESULTS_I, wpc>>]_vars
  /\ [](wpc \in AccessLabels => TICK_LOCK = "worker")
  /\ [][(wpc \in AccessLabels) => (signalled' = signalled)]_vars
  /\ []((access = 1 /\ wpc \in AccessLabels \ {"unlock"}) => RESULTS_I = 0)
  /\ [][(access = 1 /\ wpc = "increment" /\ wpc' # wpc) => RESULTS_I' = 1]_vars

\* C3 witness: the first access is under way, nothing is appended yet, and
\* a tick has been missed meanwhile.
C3_Witness ==
  /\ access = 1 /\ wpc = "store_sample" /\ RESULTS_I = 0
  /\ missed >= 1 /\ pc[Eng] = "sleep"

\* C4: once the tick loop is over and the worker is joined, every tick
\* attempted has either started an access or been reported as missed (in
\* the runs without a spurious wake-up and without a signal that cuts the
\* tick loop short).
C4_EveryTickAccounted ==
  (Joined /\ spurious = 0 /\ sigsSent = 0) => ticks = access + missed

\* C5: the accesses started never outnumber the ticks signalled, and the
\* ticks signalled never outnumber RESULTS_SIZE.
C5_AccessesAuthorized ==
  access <= signalled /\ signalled <= RESULTS_SIZE

\* C6: once pthread_join has returned the worker has terminated; from then
\* on RESULTS_I and the worker stay as they are, nothing is appended, and
\* the channels change in the sorting step of the main thread only.
C6_NoWriteAfterJoin ==
  /\ [](Joined => wpc = "cancelled")
  /\ [][Joined => /\ UNCHANGED <<RESULTS_I, wpc, taken, oob>>
                  /\ (<<SAMPLES, RESULTS, RATES>>' # <<SAMPLES, RESULTS, RATES>>)
                       => pc[Eng] = "sort"]_vars

\* C6 witness: the reduction is under way on a log that holds samples.
C6_Witness == Joined /\ pc[Eng] = "stats" /\ RESULTS_I >= 1

\* Every entry below RESULTS_I holds, in its three channels, the size, the
\* time and the rate of one and the same access.
ChannelsConsistent ==
  \A i \in 0..(RESULTS_I - 1) :
    /\ i \in DOMAIN SAMPLES
    /\ SAMPLES[i].by # 0
    /\ SAMPLES[i].by = RESULTS[i].by /\ RESULTS[i].by = RATES[i].by
    /\ <<SAMPLES[i].val, RESULTS[i].val, RATES[i].val>> \in taken

C8_GateSafety ==
  /\ (~opts.quick /\ (\/ pc["parent"] \in PastGateLabels
                      \/ pc["child"] # "unborn"
                      \/ others.running + others.exited + others.reaped > 0
                      \/ wpc # "none"
                      \/ ticks > 0))
       => PROCEED["parent"] = 1
  /\ opts.quick
       => (pc["parent"] \notin {"gate_check", "sigsuspend", "gate_unblock"}
           /\ ~sigBlocked)

\* C8 witness: a tick has been issued by a child in normal mode.
C8_Witness ==
  ~opts.quick /\ opts.forks > 0 /\ ticks > 0 /\ PROCEED["parent"] = 1

\* The parent is in the wait of the start gate.
InGate == pc["parent"] \in {"gate_check", "sigsuspend", "gate_unblock"}

\* C9: a SIGUSR1 that is pending or has been handled while the parent is in
\* the wait of the gate leads to the gate being passed, and with PROCEED
\* set the test of the wait loop never leads to sigsuspend.
C9_NoLostWakeup ==
  /\ (InGate /\ handler /\ ("parent" \in sigPending \/ PROCEED["parent"] = 1))
       ~> (pc["parent"] = "fork_check")
  /\ [][(pc["parent"] = "gate_check" /\ PROCEED["parent"] = 1)
          => pc'["parent"] # "sigsuspend"]_vars

\* C9 witness: the signal has arrived after the test of PROCEED and before
\* sigsuspend, and is held pending by the mask.
C9_Witness ==
  /\ pc["parent"] = "sigsuspend" /\ "parent" \in sigPending
  /\ PROCEED["parent"] = 0 /\ sigBlocked

\* C10: during an access the offset is inside the buffer and the size is
\* the smaller of the size drawn and the distance from the offset to the
\* end of the buffer, for a size drawn below the largest access and an
\* offset drawn from the three calls of rand(); the size stored in SAMPLES
\* is that size.
C10_AccessInsideBuffer ==
  /\ [](wpc \in (AccessLabels \ {"draw", "unlock"})
          => /\ 0 <= offset /\ offset < DATA_SIZE
             /\ 0 <= drawn /\ drawn < MEM_OP_MAX_MB * MB
             /\ size = Min(drawn, DATA_SIZE - offset)
             /\ offset + size <= DATA_SIZE /\ size <= drawn)
  /\ [][(wpc = "draw" /\ wpc' = "copy")
          => \E r1, r2 \in 0..MaxRand : offset' = DrawOffset(r1, r2)]_vars
  /\ [][(wpc = "store_sample" /\ wpc' = "store_result")
          => (SAMPLES'[RESULTS_I].val = size /\ size' = size)]_vars

\* C10 witness: an access whose size has been cut down at the end of the
\* buffer.
C10_Witness ==
  wpc = "copy" /\ size < drawn /\ offset + size = DATA_SIZE

Max(a, b) == IF a > b THEN a ELSE b

\* A call of the latency conversion that has returned.
LatencyReturned == call.fn = "latency" /\ retval # NoValue

PercentileReturned == call.fn = "percentile" /\ retval # NoValue

\* The R-7 percentile p of n sorted values: with the rank r = floor(p*(n-1)/100)
\* and the remainder m = p*(n-1) mod 100, the value data[r] when m = 0 and
\* data[r] + (m/100)*(data[r+1] - data[r]) otherwise.
R7(data, n, p) ==
  LET r == (p * (n - 1)) \div 100
      m == (p * (n - 1)) % 100
  IN  IF m = 0 THEN Frac(data[r].val, 1)
      ELSE Frac(100 * data[r].val + m * (data[r + 1].val - data[r].val), 100)

\* C12: for sorted data of length n >= 2 and every p in 0..100, percentile
\* returns the R-7 value and reads no index past n-1; p = 0 gives data[0],
\* p = 100 gives data[n-1], and for 10,20,30,40,50 the 90th percentile is 46.
C12_PercentileIsR7 ==
  (PercentileReturned /\ call.n >= 2)
    => /\ retval = R7(call.data, call.n, call.k)
       /\ percentile_reads(call.n, call.k) \subseteq 0..(call.n - 1)
       /\ call.k = 0 => retval = Double(call.data[0].val)
       /\ call.k = 100 => retval = Double(call.data[call.n - 1].val)
       /\ (call.data = Arr(<<10, 20, 30, 40, 50>>) /\ call.k = 90)
            => retval = Double(46)

\* C12 witness: the 90th percentile of 10,20,30,40,50 has been computed,
\* between the fourth and the fifth value.
C12_Witness ==
  /\ PercentileReturned
  /\ call.data = Arr(<<10, 20, 30, 40, 50>>) /\ call.k = 90
  /\ Rank(call.n, call.k) = 3 /\ Rmod(call.n, call.k) = 60
  /\ retval = Double(46)

\* A call of compute_stats that has returned.
StatsReturned == call.fn = "compute_stats" /\ retval # NoValue

\* The sum of the first n values of data, and the sum of their squares.
RECURSIVE Sum(_, _)
Sum(data, n) == IF n = 0 THEN 0 ELSE data[n - 1].val + Sum(data, n - 1)

RECURSIVE SumOfSquares(_, _)
SumOfSquares(data, n) ==
  IF n = 0 THEN 0
  ELSE data[n - 1].val * data[n - 1].val + SumOfSquares(data, n - 1)

\* The arithmetic mean of the first n values.
Mean(data, n) == Frac(Sum(data, n), n)

\* The sum of the squared deviations of the first n values from their mean.
M2(data, n) ==
  Frac(n * SumOfSquares(data, n) - Sum(data, n) * Sum(data, n), n)

\* C13: for sorted data of length n >= 2 compute_stats returns the
\* arithmetic mean of the n values as avg and the root of M2/(n-1) as
\* stdev, M2 being the sum of the squared deviations from the mean; for
\* 2,4,4,4,5,5,7,9 the mean is 5 and M2 is 32.
C13_MeanAndDeviation ==
  (StatsReturned /\ call.n >= 2)
    => /\ retval.avg = Mean(call.data, call.n)
       /\ retval.stdev = Sqrt(DDiv(M2(call.data, call.n), Double(call.n - 1)))
       /\ call.data = Arr(<<2, 4, 4, 4, 5, 5, 7, 9>>)
            => (retval.avg = Double(5) /\ retval.stdev = Sqrt(Frac(32, 7)))

\* C14: for n = 0 compute_stats returns 0 in every field; for n = 1 every
\* field is data[0], except stdev, which is 0; and for every n >= 1 min is
\* data[0] and max is data[n-1].
C14_DegenerateStats ==
  StatsReturned
    => /\ call.n = 0
            => retval = [min |-> 0, max |-> 0, avg |-> Double(0),
                         stdev |-> Sqrt(Double(0)), p99 |-> Double(0),
                         p95 |-> Double(0), p90 |-> Double(0)]
       /\ call.n = 1
            => LET x == call.data[0].val
               IN  retval = [min |-> x, max |-> x, avg |-> Double(x),
                             stdev |-> Sqrt(Double(0)), p99 |-> Double(x),
                             p95 |-> Double(x), p90 |-> Double(x)]
       /\ call.n >= 1
            => /\ retval.min = call.data[0].val
               /\ retval.max = call.data[call.n - 1].val
               /\ \A i \in 0..(call.n - 1) :
                    retval.min <= call.data[i].val /\ call.data[i].val <= retval.max

\* C14 witness: the statistics of no value at all have been computed.
C14_Witness ==
  /\ StatsReturned /\ call.n = 0 /\ DOMAIN call.data = {}
  /\ retval.max = 0 /\ retval.stdev = Sqrt(Double(0))

\* The parent has gone to free from the setup: before the fan-out and
\* before the engine.
SetupFailed ==
  /\ pc["parent"] \in {"free", "exited"}
  /\ pc["child"] = "unborn"
  /\ wpc = "none"

\* C15: a run whose setup has failed (the data could not be loaded, the
\* ready file could not be deleted or created) has forked no process and
\* issued no tick, and exits with a status other than 0.
C15_SetupFailureExitsNonZero ==
  /\ SetupFailed
       => (ticks = 0 /\ others.running + others.exited + others.reaped = 0)
  /\ (SetupFailed /\ pc["parent"] = "exited") => exit_status["parent"] # 0

\* C16: a run whose worker has been joined with no sample goes from the
\* report straight to free, without sorting and without statistics, and
\* exits with EXIT_SUCCESS; compute_stats is reached with at least one
\* sample only; and a warning (a missed tick, a dropped sample) leaves ret
\* and the exit status alone and kills no thread: ret is EXIT_SUCCESS
\* throughout the engine.
C16_ZeroSamplesSkipReduction ==
  /\ []((Joined /\ RESULTS_I = 0)
          => (pc[Eng] \in {"report", "free", "exited"} /\ stats = <<>>))
  /\ [](pc[Eng] \in {"sort", "stats"} => RESULTS_I >= 1)
  /\ [][(Joined /\ RESULTS_I = 0 /\ pc'[Eng] # pc[Eng])
          => \/ pc[Eng] = "report" /\ pc'[Eng] = "free"
             \/ /\ pc[Eng] = "free" /\ pc'[Eng] = "exited"
                /\ exit_status'[Eng] = EXIT_SUCCESS]_vars
  /\ [][(missed' # missed \/ dropped' # dropped)
          => /\ UNCHANGED <<ret, exit_status>>
             /\ pc'[Eng] # "killed" /\ wpc' # "killed"
             /\ pc'[Eng] # "free"]_vars
  /\ [](wpc # "none" => ret[Eng] = EXIT_SUCCESS)

\* C16 witness: a run that issued a tick and took no sample has exited
\* with status 0.
C16_Witness ==
  /\ Joined /\ RESULTS_I = 0 /\ ticks >= 1
  /\ pc[Eng] = "exited" /\ exit_status[Eng] = EXIT_SUCCESS
  /\ stats = <<>>

\* The positions of a main thread in the sampling engine.
EngineLabels ==
  {"mem_access", "hs_lock", "hs_wait", "hs_blocked", "hs_reacquire",
   "hs_unlock", "tick", "tick_signal", "tick_unlock", "sleep", "cancel",
   "join", "report", "sort", "stats"}

\* The children forked so far.
Children ==
  (IF pc["child"] = "unborn" THEN 0 ELSE 1)
    + others.running + others.exited + others.reaped

\* C17: with forks = N > 0 the parent forks N children, never more, each
\* starting at mem_access; the parent itself is never in the engine, so
\* that the worker and the ticks are a child's; and the parent is at free
\* or has exited, the setup having succeeded, only when all N children
\* have terminated and been waited for.  With forks = 0 there is no child
\* and the worker and the ticks are the parent's.
C17_Fanout ==
  /\ [](opts.forks > 0
          => /\ Children <= opts.forks
             /\ pc["parent"] \in {"waitpid", "free", "exited"} /\ ~SetupFailed
                  => Children = opts.forks
             /\ pc["parent"] \notin EngineLabels
             /\ (wpc # "none" \/ ticks > 0) => pc["child"] # "unborn"
             /\ (pc["parent"] \in {"free", "exited"} /\ ~SetupFailed)
                  => /\ pc["child"] \in {"exited", "killed"} /\ childReaped
                     /\ others.running = 0 /\ others.exited = 0
                     /\ others.reaped = opts.forks - 1)
  /\ [][(pc["child"] = "unborn" /\ pc'["child"] # "unborn")
          => (pc'["child"] = "mem_access" /\ pc["parent"] = "fork")]_vars
  /\ [](opts.forks = 0
          => /\ Children = 0
             /\ (wpc \notin {"none", "cancelled", "killed"} \/ ticks > 0)
                  => pc["parent"] \in EngineLabels \cup {"free", "exited", "killed"})

\* C17 witness: the parent of two children has exited after both of them,
\* the first of which took a sample.
C17_Witness ==
  /\ opts.forks = 2 /\ pc["parent"] = "exited"
  /\ pc["child"] = "exited" /\ childReaped /\ others.reaped = 1
  /\ RESULTS_I >= 1

\* C18: the main thread that has created the worker and gone to the
\* handshake eventually enters the tick loop (looked at in the runs without
\* a spurious wake-up and without a signal, and unless the process is
\* killed).
C18_HandshakeCompletes ==
  (pc["parent"] = "hs_lock")
    ~> \/ pc["parent"] \in {"tick", "killed"}
       \/ spurious > 0 \/ sigsSent > 0

\* C19: the rate of an access is computed with a latency other than 0, so
\* that the division is defined, whatever the size and the time measured
\* (looked at in the runs without a spurious wake-up and without a signal).
C19_RateDefined ==
  (wpc = "rate" /\ spurious = 0 /\ sigsSent = 0) => diff # 0

\* C20: the mutex is owned by no thread when the run destroys it, at free
\* (looked at in the runs without a spurious wake-up and without a signal).
C20_UnlockedAtDestroy ==
  (pc[Eng] = "free" /\ spurious = 0 /\ sigsSent = 0) => TICK_LOCK = "free"

====
